---- MODULE Spec2Model ----
(***************************************************************************)
(* Model of convert_excel_to_sqlite_final_fixed (4).py: the citation-key   *)
(* pipeline of the Excel -> SQLite converter (generar_clave,               *)
(* separar_clave_y_articulo, extraer_numero_articulo,                      *)
(* normalizar_nombreparte) and the conversion run that applies it          *)
(* (convertir_excel_a_sqlite).                                             *)
(*                                                                         *)
(* A Python str is a sequence of characters.  A character is a one-letter  *)
(* string; the non-ASCII characters the code names are written            *)
(* "i_acute", "I_ACUTE", "u_acute", "U_ACUTE" (i and u with acute accent), *)
(* "deg" (degree sign) and "ord_m" (masculine ordinal indicator).          *)
(***************************************************************************)
EXTENDS Integers, Sequences, FiniteSets, TLC

VARIABLES
    pc,         \* position of convertir_excel_a_sqlite
    excel,      \* the input path: [exists, cols, rows]
    df,         \* the DataFrame: [cols, rows]
    extraidos,  \* articulos_extraidos (line 147)
    sqlite,     \* the output store: [exists, cols, rows, indexes]
    ret,        \* what convertir_excel_a_sqlite returned, or the error it raised
    fn,         \* function harness: the function under call
    arg,        \* function harness: its argument
    out,        \* function harness: its result
    called      \* function harness: whether the call has been made

vars == <<pc, excel, df, extraidos, sqlite, ret, fn, arg, out, called>>
runVars == <<pc, excel, df, extraidos, sqlite, ret>>
fnVars == <<fn, arg, out, called>>

----------------------------------------------------------------------------
(* Bounds of the model *)

\* rows of the input sheet of a conversion run
MaxRows == 1
\* longest run of blanks inside a generated party description
MaxBlancos == 3
\* longest alphabetic suffix of a generated composite key's article
MaxSufijo == 2

----------------------------------------------------------------------------
(* Characters and str methods *)

DigitSeq == <<"0", "1", "2", "3", "4", "5", "6", "7", "8", "9">>
UpperSeq == <<"A", "B", "C", "D", "E", "F", "G", "H", "I", "J", "K", "L", "M", "N", "O", "P", "Q", "R", "S", "T", "U", "V", "W", "X", "Y", "Z", "I_ACUTE", "U_ACUTE">>
LowerSeq == <<"a", "b", "c", "d", "e", "f", "g", "h", "i", "j", "k", "l", "m", "n", "o", "p", "q", "r", "s", "t", "u", "v", "w", "x", "y", "z", "i_acute", "u_acute">>

Range(f) == {f[i] : i \in DOMAIN f}
DigitSet == Range(DigitSeq)
SpaceSet == {" ", "\t", "\n"}
AsciiUpper == {UpperSeq[i] : i \in 1..26}

IndexOf(seq, c) == CHOOSE i \in DOMAIN seq : seq[i] = c
LowerFn == [c \in Range(UpperSeq) |-> LowerSeq[IndexOf(UpperSeq, c)]]
UpperFn == [c \in Range(LowerSeq) |-> UpperSeq[IndexOf(LowerSeq, c)]]
DigitVal == [c \in DigitSet |-> IndexOf(DigitSeq, c) - 1]

lowerc(c) == IF c \in DOMAIN LowerFn THEN LowerFn[c] ELSE c
upperc(c) == IF c \in DOMAIN UpperFn THEN UpperFn[c] ELSE c

\* str.lower(), str.upper()
lower(s) == [i \in 1..Len(s) |-> lowerc(s[i])]
upper(s) == [i \in 1..Len(s) |-> upperc(s[i])]

\* s[k], or "" past either end
CharAt(s, k) == IF k \in 1..Len(s) THEN s[k] ELSE ""
IsDigitAt(s, k) == CharAt(s, k) \in DigitSet
IsSpaceAt(s, k) == CharAt(s, k) \in SpaceSet

\* str.strip()
strip(s) ==
    LET keep == {i \in 1..Len(s) : s[i] \notin SpaceSet}
    IN  IF keep = {} THEN <<>>
        ELSE LET a == CHOOSE i \in keep : \A j \in keep : i <= j
                 b == CHOOSE i \in keep : \A j \in keep : i >= j
             IN  SubSeq(s, a, b)

\* pat in s
Contains(pat, s) ==
    \E i \in 1..(Len(s) - Len(pat) + 1) : SubSeq(s, i, i + Len(pat) - 1) = pat

\* the literal lit at position i of s
StartsAt(s, i, lit) ==
    /\ i >= 1
    /\ i + Len(lit) - 1 <= Len(s)
    /\ SubSeq(s, i, i + Len(lit) - 1) = lit

\* the literal lit at position i of s, under re.IGNORECASE
StartsAtCI(s, i, lit) ==
    /\ i >= 1
    /\ i + Len(lit) - 1 <= Len(s)
    /\ lower(SubSeq(s, i, i + Len(lit) - 1)) = lower(lit)

\* the position after the longest run matched by \s* (\d*, [\.\d]*, [A-Z]*) from i
RECURSIVE SkipSpaces(_, _)
SkipSpaces(s, i) == IF IsSpaceAt(s, i) THEN SkipSpaces(s, i + 1) ELSE i
RECURSIVE SkipDigits(_, _)
SkipDigits(s, i) == IF IsDigitAt(s, i) THEN SkipDigits(s, i + 1) ELSE i
RECURSIVE SkipNumDot(_, _)
SkipNumDot(s, i) ==
    IF IsDigitAt(s, i) \/ CharAt(s, i) = "." THEN SkipNumDot(s, i + 1) ELSE i

Min(S) == CHOOSE i \in S : \A j \in S : i <= j
Max(S) == CHOOSE i \in S : \A j \in S : i >= j

----------------------------------------------------------------------------
(* Cell values of a DataFrame and the Python built-ins applied to them *)

NaN == [t |-> "nan", s |-> <<>>, n |-> 0]
None == [t |-> "none", s |-> <<>>, n |-> 0]
StrV(x) == [t |-> "str", s |-> x, n |-> 0]
IntV(k) == [t |-> "int", s |-> <<>>, n |-> k]
\* a float64 cell holding the integral value k
FloatV(k) == [t |-> "float", s |-> <<>>, n |-> k]

\* pd.isna
isna(v) == v.t \in {"nan", "none"}

\* bool(v): the truth value Python's `and` tests
truthy(v) ==
    CASE v.t = "str" -> v.s # <<>>
      [] v.t \in {"int", "float"} -> v.n # 0
      [] v.t = "nan" -> TRUE
      [] v.t = "none" -> FALSE

RECURSIVE NatToStr(_)
NatToStr(k) ==
    IF k < 10 THEN <<DigitSeq[k + 1]>>
    ELSE NatToStr(k \div 10) \o <<DigitSeq[(k % 10) + 1]>>
IntToStr(k) == IF k < 0 THEN <<"-">> \o NatToStr(-k) ELSE NatToStr(k)

\* str(v)
str(v) ==
    CASE v.t = "str" -> v.s
      [] v.t = "int" -> IntToStr(v.n)
      [] v.t = "float" -> IntToStr(v.n) \o <<".", "0">>
      [] v.t = "nan" -> <<"n", "a", "n">>
      [] v.t = "none" -> <<"N", "o", "n", "e">>

RECURSIVE DigitsToNat(_)
DigitsToNat(s) ==
    IF s = <<>> THEN 0
    ELSE 10 * DigitsToNat(SubSeq(s, 1, Len(s) - 1)) + DigitVal[s[Len(s)]]

\* int(v): [raised, value]; a str that is no integer literal raises ValueError
int(v) ==
    IF v.t \in {"int", "float"} THEN [raised |-> FALSE, value |-> v.n]
    ELSE IF v.t = "str" THEN
        LET t == strip(v.s)
            signed == CharAt(t, 1) \in {"+", "-"}
            d == IF signed THEN SubSeq(t, 2, Len(t)) ELSE t
        IN  IF d # <<>> /\ \A i \in 1..Len(d) : d[i] \in DigitSet
            THEN [raised |-> FALSE,
                  value |-> IF CharAt(t, 1) = "-" THEN -DigitsToNat(d) ELSE DigitsToNat(d)]
            ELSE [raised |-> TRUE, value |-> 0]
    ELSE [raised |-> TRUE, value |-> 0]

\* what a function call ends with
Return(v) == [raised |-> FALSE, value |-> v]
Raise(e) == [raised |-> TRUE, value |-> e]

\* row.get(col, ''), with a row a function from its column names to cells
get(row, col) == IF col \in DOMAIN row THEN row[col] ELSE StrV(<<>>)

----------------------------------------------------------------------------
(* CODIGOS_ESPECIALES and limpiar_numero *)

\* the dict, in declaration order (the order its items() are iterated in)
CODIGOS_ESPECIALES == <<
    [patron |-> <<"c", "o", "d", "i", "g", "o", " ", "c", "i", "v", "i", "l", " ", "d", "f", "l", " ", "1", " ", "2", "0", "0", "0", " ", "a", "r", "t", "i", "c", "u", "l", "o", " ", "2", " ", "c", "o", "n", " ", "d", "o", "b", "l", "e", " ", "a", "r", "t", "i", "c", "u", "l", "a", "d", "o">>, clave |-> <<"C", "C", "C", "H">>],
    [patron |-> <<"c", "o", "d", "i", "g", "o", " ", "p", "e", "n", "a", "l">>, clave |-> <<"C", "P", "C", "H">>],
    [patron |-> <<"c", "o", "d", "i", "g", "o", " ", "d", "e", " ", "c", "o", "m", "e", "r", "c", "i", "o">>, clave |-> <<"C", "C", "O", "M">>],
    [patron |-> <<"c", "o", "d", "i", "g", "o", " ", "d", "e", "l", " ", "t", "r", "a", "b", "a", "j", "o">>, clave |-> <<"C", "T", "C", "H">>],
    [patron |-> <<"c", "o", "d", "i", "g", "o", " ", "t", "r", "i", "b", "u", "t", "a", "r", "i", "o">>, clave |-> <<"C", "T", "R", "I", "B">>],
    [patron |-> <<"c", "o", "d", "i", "g", "o", " ", "s", "a", "n", "i", "t", "a", "r", "i", "o">>, clave |-> <<"C", "S", "A", "N">>],
    [patron |-> <<"c", "o", "d", "i", "g", "o", " ", "o", "r", "g", "a", "n", "i", "c", "o", " ", "d", "e", " ", "t", "r", "i", "b", "u", "n", "a", "l", "e", "s">>, clave |-> <<"C", "O", "T">>],
    [patron |-> <<"c", "o", "d", "i", "g", "o", " ", "p", "r", "o", "c", "e", "s", "a", "l", " ", "p", "e", "n", "a", "l">>, clave |-> <<"C", "P", "P">>],
    [patron |-> <<"c", "o", "d", "i", "g", "o", " ", "d", "e", " ", "p", "r", "o", "c", "e", "d", "i", "m", "i", "e", "n", "t", "o", " ", "c", "i", "v", "i", "l">>, clave |-> <<"C", "P", "C">>],
    [patron |-> <<"c", "o", "n", "s", "t", "i", "t", "u", "c", "i", "o", "n", " ", "p", "o", "l", "i", "t", "i", "c", "a">>, clave |-> <<"C", "R", "C", "H">>],
    [patron |-> <<"c", "o", "n", "s", "t", "i", "t", "u", "c", "i", "o", "n">>, clave |-> <<"C", "R", "C", "H">>],
    [patron |-> <<"l", "e", "y", " ", "d", "e", " ", "a", "b", "a", "n", "d", "o", "n", "o", " ", "d", "e", " ", "f", "a", "m", "i", "l", "i", "a", " ", "y", " ", "p", "e", "n", "s", "i", "o", "n", "e", "s", " ", "d", "f", "l", " ", "1", " ", "2", "0", "0", "0", " ", "a", "r", "t", "i", "c", "u", "l", "o", " ", "7", " ", "c", "o", "n", " ", "d", "o", "b", "l", "e", " ", "a", "r", "t", "i", "c", "u", "l", "a", "d", "o">>, clave |-> <<"L", "A", "F", "P">>],
    [patron |-> <<"l", "e", "y", " ", "d", "e", " ", "c", "a", "m", "b", "i", "o", " ", "d", "e", " ", "n", "o", "m", "b", "r", "e", "s", " ", "d", "f", "l", " ", "1", " ", "2", "0", "0", "0", " ", "a", "r", "t", "i", "c", "u", "l", "o", " ", "4", " ", "c", "o", "n", " ", "d", "o", "b", "l", "e", " ", "a", "r", "t", "i", "c", "u", "l", "a", "d", "o">>, clave |-> <<"L", "C", "N">>],
    [patron |-> <<"l", "e", "y", " ", "d", "e", " ", "i", "m", "p", "u", "e", "s", "t", "o", " ", "a", " ", "l", "a", " ", "h", "e", "r", "e", "n", "c", "i", "a", " ", "y", " ", "d", "o", "n", "a", "c", "i", "o", "n", "e", "s", " ", "d", "f", "l", " ", "1", " ", "2", "0", "0", "0", " ", "a", "r", "t", "i", "c", "u", "l", "o", " ", "8", " ", "c", "o", "n", " ", "d", "o", "b", "l", "e", " ", "a", "r", "t", "i", "c", "u", "l", "a", "d", "o">>, clave |-> <<"L", "I", "H", "D">>],
    [patron |-> <<"l", "e", "y", " ", "d", "e", " ", "m", "e", "n", "o", "r", "e", "s", " ", "d", "f", "l", " ", "1", " ", "2", "0", "0", "0", " ", "a", "r", "t", "i", "c", "u", "l", "o", " ", "6", " ", "c", "o", "n", " ", "d", "o", "b", "l", "e", " ", "a", "r", "t", "i", "c", "u", "l", "a", "d", "o">>, clave |-> <<"L", "M">>],
    [patron |-> <<"l", "e", "y", " ", "d", "e", "l", " ", "r", "e", "g", "i", "s", "t", "r", "o", " ", "c", "i", "v", "i", "l", " ", "d", "f", "l", " ", "1", " ", "2", "0", "0", "0", " ", "a", "r", "t", "i", "c", "u", "l", "o", " ", "3", " ", "c", "o", "n", " ", "d", "o", "b", "l", "e", " ", "a", "r", "t", "i", "c", "u", "l", "a", "d", "o">>, clave |-> <<"L", "R", "C">>]
>>

\* re.sub(r'[^\d]', '', s)
SoloDigitos(s) == SelectSeq(s, LAMBDA c : c \in DigitSet)

limpiar_numero(texto) == IF isna(texto) THEN <<>> ELSE SoloDigitos(str(texto))

----------------------------------------------------------------------------
(* The regular expressions of generar_clave.  XxxAt(s, i) is the match   *)
(* attempt of the pattern at position i; re.search takes the leftmost      *)
(* position at which the attempt succeeds.                                 *)

NoMatch == [ok |-> FALSE, g1 |-> <<>>, g2 |-> <<>>]

\* \s*(\d+)\s*(\d{4})?  from position p
NumYearAt(s, p) ==
    LET b == SkipSpaces(s, p)
        c == SkipDigits(s, b)
        d == SkipSpaces(s, c)
        hasYear == \A k \in d..(d + 3) : IsDigitAt(s, k)
    IN  IF c > b
        THEN [ok |-> TRUE, g1 |-> SubSeq(s, b, c - 1),
              g2 |-> IF hasYear THEN SubSeq(s, d, d + 3) ELSE <<>>]
        ELSE NoMatch

\* dfl\s*(\d+)\s*(\d{4})?
DflAt(s, i) == IF StartsAtCI(s, i, <<"d", "f", "l">>) THEN NumYearAt(s, i + 3) ELSE NoMatch

\* (?:decreto\s*ley|dl)\s*(\d+)\s*(\d{4})?
DlAt(s, i) ==
    LET a == SkipSpaces(s, i + 7)
    IN  IF StartsAtCI(s, i, <<"d", "e", "c", "r", "e", "t", "o">>) /\ StartsAtCI(s, a, <<"l", "e", "y">>)
        THEN NumYearAt(s, a + 3)
        ELSE IF StartsAtCI(s, i, <<"d", "l">>) THEN NumYearAt(s, i + 2)
        ELSE NoMatch

\* ley\s*(?:n[u\xfa]m\.?\s*)?(\d+[\.\d]*), \xfa the accented u
LeyAt(s, i) ==
    LET b == SkipSpaces(s, i + 3)
        hasNum == /\ lowerc(CharAt(s, b)) = "n"
                  /\ lowerc(CharAt(s, b + 1)) \in {"u", "u_acute"}
                  /\ lowerc(CharAt(s, b + 2)) = "m"
        c == SkipSpaces(s, IF CharAt(s, b + 3) = "." THEN b + 4 ELSE b + 3)
        d == IF hasNum /\ IsDigitAt(s, c) THEN c ELSE b
    IN  IF StartsAtCI(s, i, <<"l", "e", "y">>) /\ IsDigitAt(s, d)
        THEN [ok |-> TRUE, g1 |-> SubSeq(s, d, SkipNumDot(s, d) - 1), g2 |-> <<>>]
        ELSE NoMatch

\* decreto\s*supremo\s*(?:n[\xb0\xba]?\s*)?(\d+), \xb0 the degree sign, \xba the ordinal indicator
DsAt(s, i) ==
    LET a == SkipSpaces(s, i + 7)
        b == SkipSpaces(s, a + 7)
        hasN == lowerc(CharAt(s, b)) = "n"
        c == SkipSpaces(s, IF CharAt(s, b + 1) \in {"deg", "ord_m"} THEN b + 2 ELSE b + 1)
        d == IF hasN /\ IsDigitAt(s, c) THEN c ELSE b
    IN  IF StartsAtCI(s, i, <<"d", "e", "c", "r", "e", "t", "o">>) /\ StartsAtCI(s, a, <<"s", "u", "p", "r", "e", "m", "o">>) /\ IsDigitAt(s, d)
        THEN [ok |-> TRUE, g1 |-> SubSeq(s, d, SkipDigits(s, d) - 1), g2 |-> <<>>]
        ELSE NoMatch

\* re.search(pattern, s): the attempt at the leftmost position where it succeeds
SearchDfl(s) ==
    LET hits == {i \in 1..Len(s) : DflAt(s, i).ok}
    IN  IF hits = {} THEN NoMatch ELSE DflAt(s, Min(hits))

SearchDl(s) ==
    LET hits == {i \in 1..Len(s) : DlAt(s, i).ok}
    IN  IF hits = {} THEN NoMatch ELSE DlAt(s, Min(hits))

SearchLey(s) ==
    LET hits == {i \in 1..Len(s) : LeyAt(s, i).ok}
    IN  IF hits = {} THEN NoMatch ELSE LeyAt(s, Min(hits))

SearchDs(s) ==
    LET hits == {i \in 1..Len(s) : DsAt(s, i).ok}
    IN  IF hits = {} THEN NoMatch ELSE DsAt(s, Min(hits))

----------------------------------------------------------------------------
(* generar_clave *)

\* lines 45-47: a clave_manual cell that is there, not NaN and not blank
TieneClaveManual(row) ==
    /\ "clave_manual" \in DOMAIN row
    /\ ~isna(row["clave_manual"])
    /\ strip(str(row["clave_manual"])) # <<>>

\* a lookup in which the last matching entry wins
CodigoEspecialUltimo(norma, norma_tipo) ==
    LET hits == {k \in DOMAIN CODIGOS_ESPECIALES :
                    \/ Contains(CODIGOS_ESPECIALES[k].patron, norma)
                    \/ Contains(CODIGOS_ESPECIALES[k].patron, norma_tipo)}
    IN  IF hits = {} THEN <<>> ELSE CODIGOS_ESPECIALES[Max(hits)].clave

\* lines 54-56: the clave of the first entry whose patron is in either text,
\* <<>> when no entry matches
CodigoEspecial(norma, norma_tipo) ==
    LET hits == {k \in DOMAIN CODIGOS_ESPECIALES :
                    \/ Contains(CODIGOS_ESPECIALES[k].patron, norma)
                    \/ Contains(CODIGOS_ESPECIALES[k].patron, norma_tipo)}
    IN  IF hits = {} THEN <<>> ELSE CODIGOS_ESPECIALES[Min(hits)].clave

\* lines 50-89: the key derived from the norm's description, type, number and id
ClaveDerivada(row) ==
    LET norma == strip(lower(str(get(row, "norma"))))
        norma_tipo == strip(lower(str(get(row, "norma_tipo"))))
        norma_numero == get(row, "norma_numero")
        especial == CodigoEspecial(norma, norma_tipo)
        esDfl == Contains(<<"d", "e", "c", "r", "e", "t", "o", " ", "c", "o", "n", " ", "f", "u", "e", "r", "z", "a", " ", "d", "e", " ", "l", "e", "y">>, norma_tipo) \/ Contains(<<"d", "f", "l">>, norma)
        esDl == Contains(<<"d", "e", "c", "r", "e", "t", "o", " ", "l", "e", "y">>, norma_tipo) \/ Contains(<<"d", "e", "c", "r", "e", "t", "o", " ", "l", "e", "y">>, norma)
        esLey == Contains(<<"l", "e", "y">>, norma_tipo) \/ Contains(<<"l", "e", "y">>, norma)
        esDs == Contains(<<"d", "e", "c", "r", "e", "t", "o", " ", "s", "u", "p", "r", "e", "m", "o">>, norma_tipo) \/ Contains(<<"d", "e", "c", "r", "e", "t", "o", " ", "s", "u", "p", "r", "e", "m", "o">>, norma)
        mDfl == SearchDfl(norma)
        mDl == SearchDl(norma)
        mLey == SearchLey(norma)
        mDs == SearchDs(norma)
        idnorma == get(row, "norma_idnorma")
    IN  IF especial # <<>> THEN Return(especial)
        ELSE IF esDfl /\ mDfl.ok THEN
            Return(IF mDfl.g2 # <<>> THEN <<"D", "F", "L">> \o mDfl.g1 \o mDfl.g2 ELSE <<"D", "F", "L">> \o mDfl.g1)
        ELSE IF esDl /\ mDl.ok THEN
            Return(IF mDl.g2 # <<>> THEN <<"D", "L">> \o mDl.g1 \o mDl.g2 ELSE <<"D", "L">> \o mDl.g1)
        ELSE IF esLey /\ mLey.ok THEN
            Return(<<"L">> \o limpiar_numero(StrV(mLey.g1)))
        ELSE IF /\ esLey
                /\ truthy(norma_numero) /\ ~isna(norma_numero)
                /\ limpiar_numero(norma_numero) # <<>> THEN
            Return(<<"L">> \o limpiar_numero(norma_numero))
        ELSE IF esDs /\ mDs.ok THEN Return(<<"D", "S">> \o mDs.g1)
        ELSE IF truthy(idnorma) /\ ~isna(idnorma) THEN
            IF int(idnorma).raised THEN Raise(<<"V", "a", "l", "u", "e", "E", "r", "r", "o", "r">>)
            ELSE Return(<<"N">> \o IntToStr(int(idnorma).value))
        ELSE Return(<<"U", "N", "K", "N", "O", "W", "N">>)

\* a resolver in which the derived key, when there is one, overrides the manual key
generar_clave_derivada_primero(row) ==
    IF ClaveDerivada(row) # Return(<<"U", "N", "K", "N", "O", "W", "N">>) THEN ClaveDerivada(row)
    ELSE IF TieneClaveManual(row) THEN Return(upper(strip(str(row["clave_manual"]))))
    ELSE ClaveDerivada(row)

\* a resolver without the `if clave_manual:` test of line 47
generar_clave_sin_filtro(row) ==
    IF "clave_manual" \in DOMAIN row /\ ~isna(row["clave_manual"])
    THEN Return(upper(strip(str(row["clave_manual"]))))
    ELSE ClaveDerivada(row)

generar_clave(row) ==
    IF TieneClaveManual(row) THEN Return(upper(strip(str(row["clave_manual"]))))
    ELSE ClaveDerivada(row)

----------------------------------------------------------------------------
(* normalizar_nombreparte *)

\* art[\xedi]culo at position i (no flags: case-sensitive)
ArticuloAt(s, i) ==
    /\ StartsAt(s, i, <<"a", "r", "t">>)
    /\ CharAt(s, i + 3) \in {"i", "i_acute"}
    /\ StartsAt(s, i + 4, <<"c", "u", "l", "o">>)

\* re.sub(r'art[\xedi]culo', 'articulo', s), scanning from position i
RECURSIVE SubArticulo(_, _)
SubArticulo(s, i) ==
    IF i > Len(s) THEN <<>>
    ELSE IF ArticuloAt(s, i) THEN <<"a", "r", "t", "i", "c", "u", "l", "o">> \o SubArticulo(s, i + 8)
    ELSE <<s[i]>> \o SubArticulo(s, i + 1)

\* re.sub(r'^art\.?\s*', 'articulo ', s)
SubArtInicial(s) ==
    IF StartsAt(s, 1, <<"a", "r", "t">>)
    THEN LET j == SkipSpaces(s, IF CharAt(s, 4) = "." THEN 5 ELSE 4)
         IN  <<"a", "r", "t", "i", "c", "u", "l", "o", " ">> \o SubSeq(s, j, Len(s))
    ELSE s

\* re.sub(r'\s+', ' ', s), scanning from position i
RECURSIVE SubBlancos(_, _)
SubBlancos(s, i) ==
    IF i > Len(s) THEN <<>>
    ELSE IF IsSpaceAt(s, i) THEN <<" ">> \o SubBlancos(s, SkipSpaces(s, i))
    ELSE <<s[i]>> \o SubBlancos(s, i + 1)

normalizar_nombreparte(texto) ==
    IF isna(texto) THEN <<>>
    ELSE LET t0 == strip(lower(str(texto)))
             t1 == SubArticulo(t0, 1)
             t2 == SubArtInicial(t1)
             t3 == SubBlancos(t2, 1)
         IN  strip(t3)

----------------------------------------------------------------------------
(* extraer_numero_articulo *)

SufijosLatinos == <<<<"b", "i", "s">>, <<"t", "e", "r">>, <<"q", "u", "a", "t", "e", "r">>, <<"q", "u", "i", "n", "q", "u", "i", "e", "s">>, <<"s", "e", "x", "i", "e", "s">>>>

\* $: the end of s, or just before a newline that ends s
EndAt(s, i) == i = Len(s) + 1 \/ (i = Len(s) /\ s[i] = "\n")

\* (\d+(?:\s*(?:bis|ter|quater|quinquies|sexies))?)  from position b
NumSufijoAt(s, b) ==
    LET c == SkipDigits(s, b)
        d == SkipSpaces(s, c)
        hits == {k \in DOMAIN SufijosLatinos : StartsAt(s, d, SufijosLatinos[k])}
        e == IF hits = {} THEN c ELSE d + Len(SufijosLatinos[Min(hits)])
    IN  IF c > b THEN [ok |-> TRUE, g1 |-> SubSeq(s, b, e - 1), g2 |-> <<>>] ELSE NoMatch

\* (?:art[\xedi]culo|art\.?)\s*(\d+(?:\s*(?:bis|ter|quater|quinquies|sexies))?)
ArtNumAt(s, i) ==
    LET m1 == IF ArticuloAt(s, i) THEN NumSufijoAt(s, SkipSpaces(s, i + 8)) ELSE NoMatch
        p2 == IF CharAt(s, i + 3) = "." THEN i + 4 ELSE i + 3
        m2 == IF StartsAt(s, i, <<"a", "r", "t">>)
              THEN NumSufijoAt(s, SkipSpaces(s, p2)) ELSE NoMatch
    IN  IF m1.ok THEN m1 ELSE m2

\* re.search of the article pattern
SearchArtNum(s) ==
    LET hits == {i \in 1..Len(s) : ArtNumAt(s, i).ok}
    IN  IF hits = {} THEN NoMatch ELSE ArtNumAt(s, Min(hits))

\* ^(\d+)$
SoloNumero(s) == s # <<>> /\ IsDigitAt(s, 1) /\ EndAt(s, SkipDigits(s, 1))

extraer_numero_articulo(texto) ==
    IF isna(texto) THEN <<>>
    ELSE LET t == strip(lower(str(texto)))
             m == SearchArtNum(t)
         IN  IF m.ok THEN strip(m.g1)
             ELSE IF SoloNumero(strip(t)) THEN SubSeq(strip(t), 1, SkipDigits(strip(t), 1) - 1)
             ELSE <<>>

----------------------------------------------------------------------------
(* separar_clave_y_articulo *)

\* [A-Z0-9\.] and [A-Z] under re.IGNORECASE
EsLetra(c) == upperc(c) \in AsciiUpper
EsBase(c) == EsLetra(c) \/ c \in DigitSet \/ c = "."

RECURSIVE SkipLetras(_, _)
SkipLetras(s, i) == IF EsLetra(CharAt(s, i)) THEN SkipLetras(s, i + 1) ELSE i

\* the positions p of s at which \.ART(\d+[A-Z]*)$ matches after a prefix
\* matched by [A-Z0-9\.]+
CortesArt(s) ==
    {p \in 2..Len(s) :
        /\ \A k \in 1..(p - 1) : EsBase(s[k])
        /\ StartsAtCI(s, p, <<".", "A", "R", "T">>)
        /\ IsDigitAt(s, p + 4)
        /\ EndAt(s, SkipLetras(s, SkipDigits(s, p + 4)))}

\* a decomposer whose article pattern is (\d+), the alphabetic suffix dropped
separar_sin_sufijo(clave_str) ==
    IF isna(clave_str) THEN <<None, None>>
    ELSE LET K == upper(strip(str(clave_str)))
             p == Max(CortesArt(K))
         IN  IF CortesArt(K) # {}
             THEN <<StrV(upper(SubSeq(K, 1, p - 1))),
                    StrV(SubSeq(K, p + 4, SkipDigits(K, p + 4) - 1))>>
             ELSE <<StrV(K), None>>

\* re.match(r'^([A-Z0-9\.]+)\.ART(\d+[A-Z]*)$', K, re.IGNORECASE): the greedy
\* first group takes the rightmost cut
separar_clave_y_articulo(clave_str) ==
    IF isna(clave_str) THEN <<None, None>>
    ELSE LET K == upper(strip(str(clave_str)))
             p == Max(CortesArt(K))
         IN  IF CortesArt(K) # {}
             THEN <<StrV(upper(SubSeq(K, 1, p - 1))),
                    StrV(SubSeq(K, p + 4, SkipLetras(K, SkipDigits(K, p + 4)) - 1))>>
             ELSE <<StrV(K), None>>

----------------------------------------------------------------------------
(* convertir_excel_a_sqlite: the conversion run *)

\* rename_map (lines 137-141); "resen~a" is the column named with n-tilde
rename_map ==
    [c \in {"ulr_norma_pdf", "ulr_norma_xml", "resen~a"} |->
        CASE c = "ulr_norma_pdf" -> "url_norma_pdf"
          [] c = "ulr_norma_xml" -> "url_norma_xml"
          [] c = "resen~a" -> "resena"]

Renombrar(c) == IF c \in DOMAIN rename_map THEN rename_map[c] ELSE c

\* df.rename(columns=...)
RenombrarFila(row) ==
    [c \in {Renombrar(k) : k \in DOMAIN row} |->
        row[CHOOSE k \in DOMAIN row : Renombrar(k) = c]]

\* df[col] = values: the row with the cell of col set (the column added when new)
ConCelda(row, col, v) == [c \in DOMAIN row \cup {col} |-> IF c = col THEN v ELSE row[c]]

\* the CREATE INDEX statements, in execution order (lines 169-173)
INDICES == <<
    [name |-> "idx_clave", on |-> {"clave"}],
    [name |-> "idx_nombreparte", on |-> {"nombreparte_normalizado"}],
    [name |-> "idx_numero_articulo", on |-> {"numero_articulo"}],
    [name |-> "idx_clave_nombreparte", on |-> {"clave", "nombreparte_normalizado"}],
    [name |-> "idx_clave_numero", on |-> {"clave", "numero_articulo"}]
>>

\* what to_sql stores for a cell: NaN and None are both NULL
Persistido(v) == IF isna(v) THEN None ELSE v

\* lines 127-129: a missing input file ends the run with False
CheckExists ==
    /\ pc = "start"
    /\ IF excel.exists
       THEN pc' = "read" /\ ret' = ret
       ELSE pc' = "done" /\ ret' = Return(<<"F", "a", "l", "s", "e">>)
    /\ UNCHANGED <<excel, df, extraidos, sqlite, fnVars>>

\* lines 135-142: pd.read_excel and the rename pass
ReadExcel ==
    /\ pc = "read"
    /\ df' = [cols |-> {Renombrar(c) : c \in excel.cols},
              rows |-> [i \in DOMAIN excel.rows |-> RenombrarFila(excel.rows[i])]]
    /\ pc' = "resolve"
    /\ UNCHANGED <<excel, extraidos, sqlite, ret, fnVars>>

\* line 145: df['clave'] = df.apply(generar_clave, axis=1); an exception of
\* generar_clave ends the run
ResolveKeys ==
    /\ pc = "resolve"
    /\ LET res == [i \in DOMAIN df.rows |-> generar_clave(df.rows[i])]
       IN  IF \E i \in DOMAIN res : res[i].raised
           THEN /\ pc' = "raised"
                /\ ret' = res[Min({i \in DOMAIN res : res[i].raised})]
                /\ df' = df
           ELSE /\ pc' = "decompose"
                /\ ret' = ret
                /\ df' = [cols |-> df.cols \cup {"clave"},
                          rows |-> [i \in DOMAIN df.rows |->
                                       ConCelda(df.rows[i], "clave", StrV(res[i].value))]]
    /\ UNCHANGED <<excel, extraidos, sqlite, fnVars>>

\* lines 147-148: the keys split into base key and article
DecomposeKeys ==
    /\ pc = "decompose"
    /\ LET par == [i \in DOMAIN df.rows |-> separar_clave_y_articulo(df.rows[i]["clave"])]
       IN  /\ df' = [df EXCEPT !.rows = [i \in DOMAIN df.rows |->
                                           ConCelda(df.rows[i], "clave", par[i][1])]]
           /\ extraidos' = [i \in DOMAIN df.rows |-> par[i][2]]
    /\ pc' = "numero"
    /\ UNCHANGED <<excel, sqlite, ret, fnVars>>

\* lines 150-153: numero_articulo is the extracted articles, or the existing
\* column with its missing cells filled from them (fillna skips a missing filler)
SetNumeroArticulo ==
    /\ pc = "numero"
    /\ df' = [cols |-> df.cols \cup {"numero_articulo"},
              rows |-> [i \in DOMAIN df.rows |->
                  ConCelda(df.rows[i], "numero_articulo",
                      IF "numero_articulo" \notin df.cols THEN extraidos[i]
                      ELSE IF isna(df.rows[i]["numero_articulo"]) /\ ~isna(extraidos[i])
                           THEN extraidos[i]
                           ELSE df.rows[i]["numero_articulo"])]]
    /\ pc' = "normalize"
    /\ UNCHANGED <<excel, extraidos, sqlite, ret, fnVars>>

\* lines 155-156: nombreparte_normalizado, only when there is a nombreparte column
NormalizeParty ==
    /\ pc = "normalize"
    /\ df' = IF "nombreparte" \in df.cols
             THEN [cols |-> df.cols \cup {"nombreparte_normalizado"},
                   rows |-> [i \in DOMAIN df.rows |->
                       ConCelda(df.rows[i], "nombreparte_normalizado",
                                StrV(normalizar_nombreparte(df.rows[i]["nombreparte"])))]]
             ELSE df
    /\ pc' = "url"
    /\ UNCHANGED <<excel, extraidos, sqlite, ret, fnVars>>

\* lines 158-159: a missing url_norma_pdf column is added, all None
SetUrl ==
    /\ pc = "url"
    /\ df' = IF "url_norma_pdf" \notin df.cols
             THEN [cols |-> df.cols \cup {"url_norma_pdf"},
                   rows |-> [i \in DOMAIN df.rows |->
                                ConCelda(df.rows[i], "url_norma_pdf", None)]]
             ELSE df
    /\ pc' = "store"
    /\ UNCHANGED <<excel, extraidos, sqlite, ret, fnVars>>

\* lines 161-166: an existing store is removed, then the table is written
StoreTable ==
    /\ pc = "store"
    /\ sqlite' = [exists |-> TRUE,
                  cols |-> df.cols,
                  rows |-> [i \in DOMAIN df.rows |->
                               [c \in df.cols |-> Persistido(df.rows[i][c])]],
                  indexes |-> {}]
    /\ pc' = "index"
    /\ UNCHANGED <<excel, df, extraidos, ret, fnVars>>

\* lines 168-178: the five CREATE INDEX statements, in order; the first one on
\* a column the table lacks raises sqlite3.OperationalError
CreateIndexes ==
    /\ pc = "index"
    /\ LET bad == {k \in DOMAIN INDICES : ~(INDICES[k].on \subseteq sqlite.cols)}
           upto == IF bad = {} THEN Len(INDICES) ELSE Min(bad) - 1
       IN  /\ sqlite' = [sqlite EXCEPT !.indexes = {INDICES[k].name : k \in 1..upto}]
           /\ IF bad = {}
              THEN pc' = "done" /\ ret' = Return(<<"T", "r", "u", "e">>)
              ELSE pc' = "raised" /\ ret' = Raise(<<"O", "p", "e", "r", "a", "t", "i", "o", "n", "a", "l", "E", "r", "r", "o", "r">>)
    /\ UNCHANGED <<excel, df, extraidos, fnVars>>

----------------------------------------------------------------------------
(* The inputs of a conversion run *)

Ausente == [t |-> "absent", s |-> <<>>, n |-> 0]

\* the row whose columns are the cells that are there
Fila(cells) == [c \in {c \in DOMAIN cells : cells[c] # Ausente} |-> cells[c]]

\* convertir_excel_a_sqlite has not returned
NoRet == [raised |-> FALSE, value |-> <<>>]

ColumnasOpcionales == {"clave_manual", "nombreparte", "numero_articulo", "ulr_norma_pdf"}

\* the cells a column of the input sheet may hold
Celdas(c, cols) ==
    IF c \notin cols THEN {Ausente}
    ELSE CASE c = "norma" -> {NaN, StrV(<<"C", "o", "d", "i", "g", "o", " ", "P", "e", "n", "a", "l">>)}
           [] c = "norma_idnorma" -> {NaN, IntV(7), StrV(<<"a", "b", "c">>)}
           [] c = "clave_manual" -> {NaN, StrV(<<"C", "T", "R", "I", "B", ".", "A", "r", "t", "3", "1">>), StrV(<<" ", " ">>)}
           [] c = "nombreparte" -> {NaN, StrV(<<"A", "r", "t", "i_acute", "c", "u", "l", "o", " ", "4", "1", " ", "b", "i", "s">>)}
           [] c = "numero_articulo" -> {NaN, StrV(<<"7">>)}
           [] c = "ulr_norma_pdf" -> {NaN}

\* the rows of a sheet with columns cols
FilasDe(cols) ==
    {Fila([norma |-> d, norma_idnorma |-> i, clave_manual |-> m, nombreparte |-> p,
           numero_articulo |-> a, ulr_norma_pdf |-> u]) :
        d \in Celdas("norma", cols), i \in Celdas("norma_idnorma", cols),
        m \in Celdas("clave_manual", cols), p \in Celdas("nombreparte", cols),
        a \in Celdas("numero_articulo", cols), u \in Celdas("ulr_norma_pdf", cols)}

\* a store left by an earlier run
StoreViejo ==
    [exists |-> TRUE, cols |-> {"clave"}, rows |-> <<[clave |-> StrV(<<"C", "P", "C", "H">>)]>>,
     indexes |-> {"idx_clave"}]
StoreNuevo == [exists |-> FALSE, cols |-> {}, rows |-> <<>>, indexes |-> {}]

FnIdle ==
    /\ fn = "none"
    /\ arg = None
    /\ out = None
    /\ called = FALSE

Init ==
    /\ FnIdle
    /\ pc = "start"
    /\ df = [cols |-> {}, rows |-> <<>>]
    /\ extraidos = <<>>
    /\ ret = NoRet
    /\ sqlite \in {StoreNuevo, StoreViejo}
    /\ \/ excel = [exists |-> FALSE, cols |-> {}, rows |-> <<>>]
       \/ \E opc \in SUBSET ColumnasOpcionales, n \in 1..MaxRows :
             \E rows \in [1..n -> FilasDe({"norma", "norma_idnorma"} \cup opc)] :
                excel = [exists |-> TRUE,
                         cols |-> {"norma", "norma_idnorma"} \cup opc,
                         rows |-> rows]

Next ==
    \/ CheckExists
    \/ ReadExcel
    \/ ResolveKeys
    \/ DecomposeKeys
    \/ SetNumeroArticulo
    \/ NormalizeParty
    \/ SetUrl
    \/ StoreTable
    \/ CreateIndexes

Spec == Init /\ [][Next]_vars

----------------------------------------------------------------------------
(* Function harness: one call of one function on an input drawn in FnInit *)

ClavesManualesPrueba == {Ausente, NaN, StrV(<<" ", " ">>), StrV(<<" ", "c", "t", "r", "i", "b", ".", "A", "r", "t", "3", "1", " ">>), StrV(<<"c", "p", "c", "h">>), StrV(<<"D", "L", "8", "2", "4", ".", "1", "9", "7", "4", ".", "A", "r", "t", "4", "1", "e">>)}
NormasPrueba == {Ausente, NaN, StrV(<<"C", "o", "d", "i", "g", "o", " ", "P", "e", "n", "a", "l">>), StrV(<<"C", "o", "n", "s", "t", "i", "t", "u", "c", "i", "o", "n", " ", "P", "o", "l", "i", "t", "i", "c", "a", " ", "d", "e", " ", "l", "a", " ", "R", "e", "p", "u", "b", "l", "i", "c", "a">>),
    StrV(<<"C", "o", "d", "i", "g", "o", " ", "C", "i", "v", "i", "l", " ", "D", "F", "L", " ", "1", " ", "2", "0", "0", "0", " ", "a", "r", "t", "i", "c", "u", "l", "o", " ", "2", " ", "c", "o", "n", " ", "d", "o", "b", "l", "e", " ", "a", "r", "t", "i", "c", "u", "l", "a", "d", "o">>),
    StrV(<<"L", "e", "y", " ", "d", "e", " ", "M", "e", "n", "o", "r", "e", "s", " ", "D", "F", "L", " ", "1", " ", "2", "0", "0", "0", " ", "a", "r", "t", "i", "c", "u", "l", "o", " ", "6", " ", "c", "o", "n", " ", "d", "o", "b", "l", "e", " ", "a", "r", "t", "i", "c", "u", "l", "a", "d", "o">>),
    StrV(<<"D", "F", "L", " ", "1", " ", "2", "0", "0", "0">>), StrV(<<"d", "f", "l", "2">>), StrV(<<"D", "e", "c", "r", "e", "t", "o", " ", "L", "e", "y", " ", "8", "2", "4", " ", "1", "9", "7", "4">>), StrV(<<"D", "L", " ", "3", "5", "0", "0">>),
    StrV(<<"L", "e", "y", " ", "N", "deg", " ", "1", "9", ".", "4", "9", "6">>), StrV(<<"L", "e", "y", " ", "1", "9", ".", "4", "9", "6">>), StrV(<<"L", "e", "y", " ", "N", "u_acute", "m", ".", " ", "2", "0", ".", "0", "0", "0">>), StrV(<<"L", "e", "y", " ", "d", "e", " ", "T", "r", "a", "n", "s", "i", "t", "o">>),
    StrV(<<"D", "e", "c", "r", "e", "t", "o", " ", "S", "u", "p", "r", "e", "m", "o", " ", "N", "deg", " ", "1", "2">>), StrV(<<"D", "e", "c", "r", "e", "t", "o", " ", "S", "u", "p", "r", "e", "m", "o", " ", "1", "0", "0">>), StrV(<<"R", "e", "g", "l", "a", "m", "e", "n", "t", "o", " ", "i", "n", "t", "e", "r", "n", "o">>)}
TiposPrueba == {Ausente, NaN, StrV(<<"L", "e", "y">>), StrV(<<"D", "e", "c", "r", "e", "t", "o", " ", "L", "e", "y">>), StrV(<<"D", "e", "c", "r", "e", "t", "o", " ", "c", "o", "n", " ", "F", "u", "e", "r", "z", "a", " ", "d", "e", " ", "L", "e", "y">>),
    StrV(<<"D", "e", "c", "r", "e", "t", "o", " ", "S", "u", "p", "r", "e", "m", "o">>), StrV(<<"C", "o", "d", "i", "g", "o", " ", "T", "r", "i", "b", "u", "t", "a", "r", "i", "o">>), StrV(<<"C", "o", "d", "i", "g", "o">>)}
NumerosPrueba == {Ausente, NaN, StrV(<<"1", "9", ".", "4", "9", "6">>), StrV(<<"s", "/", "n">>), FloatV(20000)}
IdsPrueba == {Ausente, NaN, IntV(0), IntV(141599), FloatV(7), StrV(<<"a", "b", "c">>), StrV(<<" ", "1", "2", " ">>)}

FilasPrueba ==
    {Fila([clave_manual |-> m, norma |-> d, norma_tipo |-> t, norma_numero |-> k, norma_idnorma |-> i]) :
        m \in ClavesManualesPrueba, d \in NormasPrueba, t \in TiposPrueba,
        k \in NumerosPrueba, i \in IdsPrueba}

\* n blanks
RECURSIVE Blancos(_)
Blancos(n) == IF n = 0 THEN <<>> ELSE <<" ">> \o Blancos(n - 1)

\* the strings over alphabet of length at most n
RECURSIVE Palabras(_, _)
Palabras(alphabet, n) ==
    IF n = 0 THEN {<<>>}
    ELSE Palabras(alphabet, n - 1) \cup
         {w \o <<c>> : w \in Palabras(alphabet, n - 1), c \in alphabet}

\* the spellings of the article marker
Marcadores == {<<>>, <<"A", "r", "t", ".">>, <<"A", "r", "t">>, <<"a", "r", "t", ".">>, <<"a", "r", "t", "i_acute", "c", "u", "l", "o">>, <<"A", "r", "t", "i", "c", "u", "l", "o">>, <<"A", "R", "T", "I_ACUTE", "C", "U", "L", "O">>, <<"i", "n", "c", "i", "s", "o", " ", "a", "r", "t", ".">>}
NumerosArticulo == {<<"5">>, <<"4", "1">>}
Colas == {<<>>, <<" ", "b", "i", "s">>, <<"b", "i", "s">>, <<" ", "t", "e", "r">>, <<" ", "q", "u", "a", "t", "e", "r">>, <<" ", " ">>, <<" ", "d", "e", "l", " ", "c", "o", "d", "i", "g", "o">>}

\* party descriptions: a marker, a run of blanks, a number, a tail
TextosPrueba ==
    {NaN, IntV(123), StrV(<<"f", "o", "o">>), StrV(<<" ", " ", "1", "2", "3", " ", " ">>)} \cup
    {StrV(pad \o m \o Blancos(k) \o n \o cola) :
        pad \in {<<>>, <<" ">>}, m \in Marcadores, k \in 0..MaxBlancos,
        n \in NumerosArticulo, cola \in Colas}

\* keys: a base, an article marker, digits, an alphabetic suffix, a tail
ClavesPrueba ==
    {NaN, None, IntV(824)} \cup
    {StrV(pad \o b \o m \o d \o l \o cola) :
        pad \in {<<>>, <<" ">>},
        b \in {<<>>, <<"C", "T", "R", "I", "B">>, <<"D", "L", "8", "2", "4", ".", "1", "9", "7", "4">>, <<"c", "p", "c", "h">>, <<"L", " ", "1">>, <<"A", ".", "A", "R", "T", "1">>},
        m \in {<<>>, <<".", "A", "R", "T">>, <<".", "A", "r", "t">>, <<".", "a", "r", "t">>, <<"A", "R", "T">>},
        d \in {<<>>, <<"3", "1">>, <<"4", "1">>},
        l \in Palabras({"E", "b"}, MaxSufijo),
        cola \in {<<>>, <<" ">>, <<".">>}}

RunIdle ==
    /\ pc = "idle"
    /\ excel = [exists |-> FALSE, cols |-> {}, rows |-> <<>>]
    /\ df = [cols |-> {}, rows |-> <<>>]
    /\ extraidos = <<>>
    /\ sqlite = StoreNuevo
    /\ ret = NoRet

FnInit ==
    /\ RunIdle
    /\ called = FALSE
    /\ out = None
    /\ \/ fn = "generar_clave" /\ arg \in FilasPrueba
       \/ fn = "normalizar_nombreparte" /\ arg \in TextosPrueba
       \/ fn = "extraer_numero_articulo" /\ arg \in TextosPrueba
       \/ fn = "separar_clave_y_articulo" /\ arg \in ClavesPrueba

Call_generar_clave ==
    /\ ~called /\ fn = "generar_clave"
    /\ out' = generar_clave(arg)
    /\ called' = TRUE
    /\ UNCHANGED <<fn, arg, runVars>>

Call_normalizar_nombreparte ==
    /\ ~called /\ fn = "normalizar_nombreparte"
    /\ out' = normalizar_nombreparte(arg)
    /\ called' = TRUE
    /\ UNCHANGED <<fn, arg, runVars>>

Call_extraer_numero_articulo ==
    /\ ~called /\ fn = "extraer_numero_articulo"
    /\ out' = extraer_numero_articulo(arg)
    /\ called' = TRUE
    /\ UNCHANGED <<fn, arg, runVars>>

Call_separar_clave_y_articulo ==
    /\ ~called /\ fn = "separar_clave_y_articulo"
    /\ out' = separar_clave_y_articulo(arg)
    /\ called' = TRUE
    /\ UNCHANGED <<fn, arg, runVars>>

FnNext ==
    \/ Call_generar_clave
    \/ Call_normalizar_nombreparte
    \/ Call_extraer_numero_articulo
    \/ Call_separar_clave_y_articulo

FnSpec == FnInit /\ [][FnNext]_vars

----------------------------------------------------------------------------
(* Properties *)

\* a manual key that is present and not blank after trimming
ManualNoBlanco(row) ==
    /\ "clave_manual" \in DOMAIN row
    /\ row["clave_manual"].t = "str"
    /\ \E i \in DOMAIN row["clave_manual"].s : row["clave_manual"].s[i] \notin SpaceSet

\* a cell that is missing: no such column, NaN or None
Falta(row, col) == col \notin DOMAIN row \/ isna(row[col])

\* C1: for every row whose manual_key is present and non-blank after trimming,
\* generar_clave returns that manual_key trimmed and uppercased, whatever the
\* other fields hold.
C1_ManualKeyWins ==
    (called /\ fn = "generar_clave" /\ ManualNoBlanco(arg))
        => out = Return(upper(strip(arg["clave_manual"].s)))

\* a call with a manual key and a description that names a special code
C1_Witness ==
    /\ called /\ fn = "generar_clave"
    /\ ~Falta(arg, "clave_manual") /\ arg["clave_manual"] = StrV(<<" ", "c", "t", "r", "i", "b", ".", "A", "r", "t", "3", "1", " ">>)
    /\ ~Falta(arg, "norma") /\ arg["norma"] = StrV(<<"C", "o", "d", "i", "g", "o", " ", "P", "e", "n", "a", "l">>)
    /\ ~Falta(arg, "norma_tipo") /\ arg["norma_tipo"] = StrV(<<"D", "e", "c", "r", "e", "t", "o", " ", "L", "e", "y">>)
    /\ out = Return(<<"C", "T", "R", "I", "B", ".", "A", "R", "T", "3", "1">>)

\* the spellings of the article marker that C2 names
VariantesArticulo == {<<"A", "r", "t", ".">>, <<"A", "r", "t">>, <<"a", "r", "t", ".">>, <<"a", "r", "t", "i_acute", "c", "u", "l", "o">>, <<"A", "r", "t", "i", "c", "u", "l", "o">>, <<"A", "R", "T", "I_ACUTE", "C", "U", "L", "O">>}

\* C2: normalizar_nombreparte maps "Art. 5", "art\xedculo   5" and "Articulo 5" to one
\* and the same string: an abbreviated art/art. prefix, an accented and an
\* unaccented articulo followed by the same number all yield the output of
\* the abbreviated spelling.
C2_VariantsCollapse ==
    \A m \in VariantesArticulo, k \in 1..MaxBlancos, n \in NumerosArticulo :
        (called /\ fn = "normalizar_nombreparte" /\ arg = StrV(m \o Blancos(k) \o n))
            => out = normalizar_nombreparte(StrV(<<"A", "r", "t", ".", " ">> \o n))

\* C3: a row with norma_tipo "Ley", norma "Ley N\xb0 19.496", no manual key, no
\* norm_number and no norm_internal_id is resolved to "L19496".
C3_LeyNumero ==
    ( /\ called /\ fn = "generar_clave"
      /\ ~ManualNoBlanco(arg)
      /\ ~Falta(arg, "norma") /\ arg["norma"] = StrV(<<"L", "e", "y", " ", "N", "deg", " ", "1", "9", ".", "4", "9", "6">>)
      /\ ~Falta(arg, "norma_tipo") /\ arg["norma_tipo"] = StrV(<<"L", "e", "y">>)
      /\ Falta(arg, "norma_numero") /\ Falta(arg, "norma_idnorma") )
        => out = Return(<<"L", "1", "9", "4", "9", "6">>)

\* the run is past the resolve-then-decompose pass (lines 145-148)
DespuesDeSeparar ==
    \/ pc \in {"numero", "normalize", "url", "store", "index", "done"}
    \/ pc = "raised" /\ ret = Raise(<<"O", "p", "e", "r", "a", "t", "i", "o", "n", "a", "l", "E", "r", "r", "o", "r">>)

\* no manual key, special-code phrase, typed pattern, norm_number fallback or
\* internal id applies to the row
NadaAplica(row) ==
    LET norma == strip(lower(str(get(row, "norma"))))
        tipo == strip(lower(str(get(row, "norma_tipo"))))
        en(w) == Contains(w, norma) \/ Contains(w, tipo)
        numero == get(row, "norma_numero")
        id == get(row, "norma_idnorma")
    IN  /\ ~ManualNoBlanco(row)
        /\ \A k \in DOMAIN CODIGOS_ESPECIALES : ~en(CODIGOS_ESPECIALES[k].patron)
        /\ ~((Contains(<<"d", "e", "c", "r", "e", "t", "o", " ", "c", "o", "n", " ", "f", "u", "e", "r", "z", "a", " ", "d", "e", " ", "l", "e", "y">>, tipo) \/ Contains(<<"d", "f", "l">>, norma))
                /\ SearchDfl(norma).ok)
        /\ ~(en(<<"d", "e", "c", "r", "e", "t", "o", " ", "l", "e", "y">>) /\ SearchDl(norma).ok)
        /\ ~(en(<<"l", "e", "y">>) /\ SearchLey(norma).ok)
        /\ ~(en(<<"l", "e", "y">>) /\ numero.t = "str" /\ SoloDigitos(numero.s) # <<>>)
        /\ ~(en(<<"l", "e", "y">>) /\ numero.t \in {"int", "float"} /\ numero.n # 0)
        /\ ~(en(<<"d", "e", "c", "r", "e", "t", "o", " ", "s", "u", "p", "r", "e", "m", "o">>) /\ SearchDs(norma).ok)
        /\ (isna(id) \/ id = StrV(<<>>) \/ id \in {IntV(0), FloatV(0)})

\* C4: after the resolve-then-decompose pass of a conversion run every row's key
\* is a non-empty string, and a row to which no key source applies has the key
\* "UNKNOWN".
C4_KeyNonEmpty ==
    DespuesDeSeparar =>
        \A i \in DOMAIN df.rows :
            /\ df.rows[i]["clave"].t = "str"
            /\ df.rows[i]["clave"].s # <<>>
            /\ NadaAplica(excel.rows[i]) => df.rows[i]["clave"].s = <<"U", "N", "K", "N", "O", "W", "N">>

\* a row with a blank manual key and nothing else, just after the pass
C4_Witness ==
    /\ pc = "numero"
    /\ "clave_manual" \in excel.cols
    /\ excel.rows[1]["clave_manual"] = StrV(<<" ", " ">>)
    /\ NadaAplica(excel.rows[1])
    /\ df.rows[1]["clave"] = StrV(<<"U", "N", "K", "N", "O", "W", "N">>)

\* C5: generar_clave never raises: for every row, a norm_internal_id that is
\* present but not numeric included, it returns a key string.
C5_NeverRaises ==
    (called /\ fn = "generar_clave") => ~out.raised

\* the entries of the table whose phrase is in the lowercased description or type
EntradasEn(row) ==
    {k \in DOMAIN CODIGOS_ESPECIALES :
        \/ Contains(CODIGOS_ESPECIALES[k].patron, lower(str(get(row, "norma"))))
        \/ Contains(CODIGOS_ESPECIALES[k].patron, lower(str(get(row, "norma_tipo"))))}

\* C6: for every row with no non-blank manual key whose lowercased description or
\* type contains a special-code phrase, generar_clave returns the code of the
\* first such entry in declaration order, before any typed pattern.
C6_FirstEntryWins ==
    (called /\ fn = "generar_clave" /\ ~ManualNoBlanco(arg) /\ EntradasEn(arg) # {})
        => out = Return(CODIGOS_ESPECIALES[Min(EntradasEn(arg))].clave)

\* a description naming entry 15 (and a DFL), a type naming entry 5: entry 5 wins
C6_Witness ==
    /\ called /\ fn = "generar_clave"
    /\ ~ManualNoBlanco(arg)
    /\ ~Falta(arg, "norma")
    /\ arg["norma"] = StrV(<<"L", "e", "y", " ", "d", "e", " ", "M", "e", "n", "o", "r", "e", "s", " ", "D", "F", "L", " ", "1", " ", "2", "0", "0", "0", " ", "a", "r", "t", "i", "c", "u", "l", "o", " ", "6", " ", "c", "o", "n", " ", "d", "o", "b", "l", "e", " ", "a", "r", "t", "i", "c", "u", "l", "a", "d", "o">>)
    /\ ~Falta(arg, "norma_tipo") /\ arg["norma_tipo"] = StrV(<<"C", "o", "d", "i", "g", "o", " ", "T", "r", "i", "b", "u", "t", "a", "r", "i", "o">>)
    /\ EntradasEn(arg) = {5, 15}
    /\ out = Return(<<"C", "T", "R", "I", "B">>)

\* digits followed by optional letters
EsArticulo(a) ==
    \E j \in 1..Len(a) :
        /\ \A k \in 1..j : a[k] \in DigitSet
        /\ \A k \in (j + 1)..Len(a) : a[k] \in AsciiUpper

\* K carries a composite suffix: K = base.ART<article>
EsCompuesta(K) ==
    \E p \in 2..(Len(K) - 4) :
        /\ \A k \in 1..(p - 1) : K[k] \in AsciiUpper \cup DigitSet \cup {"."}
        /\ SubSeq(K, p, p + 3) = <<".", "A", "R", "T">>
        /\ EsArticulo(SubSeq(K, p + 4, Len(K)))

\* C7: separar_clave_y_articulo is lossless on every non-null key k: with K = k
\* trimmed and uppercased it returns (K, no article) when K has no composite
\* suffix, and otherwise (base, article) with base + ".ART" + article = K and
\* article digits followed by optional letters; a returned base without suffix
\* decomposes to itself with no article.
C7_DecomposeLossless ==
    (called /\ fn = "separar_clave_y_articulo" /\ ~isna(arg)) =>
        LET K == upper(strip(str(arg)))
            base == out[1]
            articulo == out[2]
        IN  /\ base.t = "str"
            /\ IF EsCompuesta(K)
               THEN /\ articulo.t = "str"
                    /\ EsArticulo(articulo.s)
                    /\ base.s \o <<".", "A", "R", "T">> \o articulo.s = K
               ELSE out = <<StrV(K), None>>
            /\ ~EsCompuesta(base.s) => separar_clave_y_articulo(base) = <<base, None>>
            /\ K = <<"C", "T", "R", "I", "B", ".", "A", "R", "T", "3", "1">> => out = <<StrV(<<"C", "T", "R", "I", "B">>), StrV(<<"3", "1">>)>>
            /\ K = <<"D", "L", "8", "2", "4", ".", "1", "9", "7", "4", ".", "A", "R", "T", "4", "1", "E">> => out = <<StrV(<<"D", "L", "8", "2", "4", ".", "1", "9", "7", "4">>), StrV(<<"4", "1", "E">>)>>
            /\ K = <<"C", "P", "C", "H">> => out = <<StrV(<<"C", "P", "C", "H">>), None>>

\* an untrimmed, mixed-case key with a year and a letter-suffixed article
C7_Witness ==
    /\ called /\ fn = "separar_clave_y_articulo"
    /\ arg = StrV(<<" ", "D", "L", "8", "2", "4", ".", "1", "9", "7", "4", ".", "A", "r", "t", "4", "1", "E">>)
    /\ out = <<StrV(<<"D", "L", "8", "2", "4", ".", "1", "9", "7", "4">>), StrV(<<"4", "1", "E">>)>>

\* the run is past the numero_articulo step (lines 150-153)
DespuesDeNumero ==
    \/ pc \in {"normalize", "url", "store", "index", "done"}
    \/ pc = "raised" /\ ret = Raise(<<"O", "p", "e", "r", "a", "t", "i", "o", "n", "a", "l", "E", "r", "r", "o", "r">>)

\* C8: in a conversion run, every row whose article number is absent after the
\* resolve and decompose steps (no existing value, no .ART suffix in the key) has
\* numero_articulo backfilled with extraer_numero_articulo of its nombreparte.
C8_Backfill ==
    DespuesDeNumero =>
        \A i \in DOMAIN df.rows :
            ( /\ ~Falta(excel.rows[i], "nombreparte")
              /\ Falta(excel.rows[i], "numero_articulo")
              /\ isna(extraidos[i]) )
                => df.rows[i]["numero_articulo"]
                       = StrV(extraer_numero_articulo(excel.rows[i]["nombreparte"]))

\* C9: after a conversion run every persisted row's numero_articulo is a string,
\* the empty string when it cannot be resolved, never null.
C9_ArticleIsString ==
    (pc = "done" /\ ret = Return(<<"T", "r", "u", "e">>)) =>
        \A i \in DOMAIN sqlite.rows : sqlite.rows[i]["numero_articulo"].t = "str"

\* C10: a conversion run over an existing input that lacks the nombreparte column
\* succeeds: no step fails for the missing column, every input row is persisted
\* with nombreparte_normalizado the empty string, and the five indexes exist.
C10_MissingColumnTolerated ==
    (excel.exists /\ "nombreparte" \notin excel.cols) =>
        /\ ret # Raise(<<"O", "p", "e", "r", "a", "t", "i", "o", "n", "a", "l", "E", "r", "r", "o", "r">>)
        /\ pc = "done" =>
            /\ ret = Return(<<"T", "r", "u", "e">>)
            /\ Len(sqlite.rows) = Len(excel.rows)
            /\ \A i \in DOMAIN sqlite.rows :
                  /\ "nombreparte_normalizado" \in sqlite.cols
                  /\ sqlite.rows[i]["nombreparte_normalizado"] = StrV(<<>>)
            /\ sqlite.indexes = {INDICES[k].name : k \in DOMAIN INDICES}

====
